---- MODULE Spec2Model ----
(***************************************************************************)
(* Model of the robot-language validator of src/logic.py: the lexer        *)
(* (tokenize), the recursive-descent parser over the module-level cursor   *)
(* (tokens, pos, variables, procedures), the semantic pass                 *)
(* (check_semantics) and the orchestration (check_file).                   *)
(*                                                                         *)
(* A source text is a sequence of one-character strings.  The parser is a  *)
(* stack machine: every Python call frame is a record on the caller's      *)
(* stack, every step performs at most one advance() of the shared cursor.  *)
(***************************************************************************)
EXTENDS Integers, Sequences, FiniteSets, TLC

VARIABLES
    tokens,       \* logic.py:69  module-level token list
    pos,          \* logic.py:70  module-level cursor (0-based)
    variables,    \* logic.py:71  module-level set, reset by check_file
    procedures,   \* logic.py:72  module-level dict name -> proc_def
    stack,        \* per caller: the Python call stack of its check_file call
    ret,          \* per caller: the value returned by the last finished callee
    file,         \* per caller: the file its check_file call was given
    program,      \* per caller: check_file's local program (logic.py:375)
    result,       \* per caller: what its check_file call ended with
    first         \* the first finished call of the process: its file and result

vars ==
    <<tokens, pos, variables, procedures, stack, ret, file, program, result, first>>

(***************************************************************************)
(* Bounds of the model.                                                    *)
(***************************************************************************)
\* global declarations list 0..MaxGlobals identifiers
MaxGlobals == 5
\* constructs are nested 0..MaxNest levels deep around a call
MaxNest == 2

(***************************************************************************)
(* Characters (the classes of the patterns at logic.py:24-36).             *)
(***************************************************************************)
Lower == {"a","b","c","d","e","f","g","h","i","j","k","l","m",
          "n","o","p","q","r","s","t","u","v","w","x","y","z"}
Upper == {"A","B","C","D","E","F","G","H","I","J","K","L","M",
          "N","O","P","Q","R","S","T","U","V","W","X","Y","Z"}
Digit == {"0","1","2","3","4","5","6","7","8","9"}
IdStart == Lower \cup Upper \cup {"_"}
IdChar == IdStart \cup Digit
Blank == {" ", "\t"}

DigitVal(c) ==
    CASE c = "0" -> 0 [] c = "1" -> 1 [] c = "2" -> 2 [] c = "3" -> 3
      [] c = "4" -> 4 [] c = "5" -> 5 [] c = "6" -> 6 [] c = "7" -> 7
      [] c = "8" -> 8 [] c = "9" -> 9

\* int(value) of a digit string given as characters
RECURSIVE int(_)
int(cs) ==
    IF cs = <<>> THEN 0
    ELSE 10 * int(SubSeq(cs, 1, Len(cs) - 1)) + DigitVal(cs[Len(cs)])

\* mo.group(): the matched characters as one string
RECURSIVE group(_)
group(cs) == IF cs = <<>> THEN "" ELSE Head(cs) \o group(Tail(cs))

(***************************************************************************)
(* Python values: AST nodes are tagged tuples, lists, dicts and strings.   *)
(***************************************************************************)
PyNone == [ty |-> "none", s |-> "", n |-> 0, keys |-> <<>>, items |-> <<>>]
PyStr(v) == [ty |-> "str", s |-> v, n |-> 0, keys |-> <<>>, items |-> <<>>]
PyInt(v) == [ty |-> "int", s |-> "", n |-> v, keys |-> <<>>, items |-> <<>>]
PyList(xs) == [ty |-> "list", s |-> "", n |-> 0, keys |-> <<>>, items |-> xs]
PyTuple(xs) == [ty |-> "tuple", s |-> "", n |-> 0, keys |-> <<>>, items |-> xs]
PyDict(ks, xs) == [ty |-> "dict", s |-> "", n |-> 0, keys |-> ks, items |-> xs]

\* d[k] = v on a dict: an existing key keeps its place, a new one is appended
DictSet(d, k, v) ==
    IF \E i \in 1..Len(d.keys) : d.keys[i] = k
    THEN PyDict(d.keys, [i \in 1..Len(d.items) |->
                            IF d.keys[i] = k THEN v ELSE d.items[i]])
    ELSE PyDict(Append(d.keys, k), Append(d.items, v))

\* d[k] for a key the dict holds
DictGet(d, k) == d.items[CHOOSE i \in 1..Len(d.keys) : d.keys[i] = k]

(***************************************************************************)
(* Tokens: the tuple (kind, value, line, column) of logic.py:52-56.  The   *)
(* value of a NUMBER is int(value), kept in num; every other token keeps   *)
(* its text in value.                                                      *)
(***************************************************************************)
Token(kind, value, num, line, column) ==
    [kind |-> kind, value |-> value, num |-> num, line |-> line, col |-> column]

\* current_token() returning None
None == Token("None", "", 0, 0, 0)

\* greedy run of a character class: the first index >= i not in cls
RECURSIVE RunEnd(_, _, _)
RunEnd(text, i, cls) ==
    IF i <= Len(text) /\ text[i] \in cls THEN RunEnd(text, i + 1, cls) ELSE i

\* does text hold character c at index i
At(text, i, c) == i <= Len(text) /\ text[i] = c
InAt(text, i, cls) == i <= Len(text) /\ text[i] \in cls

\* The master regular expression at index i (1-based): the first alternative
\* of token_specs, in order, that matches there; end is one past the match.
token_regex(text, i) ==
    LET c == text[i] IN
    IF c = ":" /\ At(text, i + 1, "=") THEN [kind |-> "ASSIGN", end |-> i + 2]
    ELSE IF c = "#" /\ InAt(text, i + 1, IdStart)
        THEN [kind |-> "HASHID", end |-> RunEnd(text, i + 2, IdChar)]
    ELSE IF c \in Digit THEN [kind |-> "NUMBER", end |-> RunEnd(text, i + 1, Digit)]
    ELSE IF c \in IdStart THEN [kind |-> "ID", end |-> RunEnd(text, i + 1, IdChar)]
    ELSE IF c = "|" THEN [kind |-> "PIPE", end |-> i + 1]
    ELSE IF c = "[" THEN [kind |-> "LBRACKET", end |-> i + 1]
    ELSE IF c = "]" THEN [kind |-> "RBRACKET", end |-> i + 1]
    ELSE IF c = ":" THEN [kind |-> "COLON", end |-> i + 1]
    ELSE IF c = "." THEN [kind |-> "DOT", end |-> i + 1]
    ELSE IF c = "," THEN [kind |-> "COMMA", end |-> i + 1]
    ELSE IF c \in Blank THEN [kind |-> "SKIP", end |-> RunEnd(text, i + 1, Blank)]
    ELSE IF c = "\n" THEN [kind |-> "NEWLINE", end |-> i + 1]
    ELSE [kind |-> "MISMATCH", end |-> i + 1]

(***************************************************************************)
(* Exceptions.  cls is the Python class raised, stage the pipeline stage   *)
(* the message belongs to; a syntax error carries the token error() read.  *)
(***************************************************************************)
Exc(cls, stage, msg, eoi, line, column, ch) ==
    [cls |-> cls, stage |-> stage, msg |-> msg, eoi |-> eoi,
     line |-> line, col |-> column, ch |-> ch]
NoErr == Exc("", "", "", FALSE, 0, 0, "")

(***************************************************************************)
(* Cursor primitives over the module-level tokens and pos.                 *)
(***************************************************************************)
current_token == IF pos < Len(tokens) THEN tokens[pos + 1] ELSE None

advance == pos + 1

\* a lookahead that reads the token two places behind the current one
NextIs_Third(kind) == pos + 2 < Len(tokens) /\ tokens[pos + 3].kind = kind

\* tokens[pos+1][0] == kind guarded by pos + 1 < len(tokens)
NextIs(kind) == pos + 1 < Len(tokens) /\ tokens[pos + 2].kind = kind

\* error(message): the exception it raises
error(message) ==
    LET token == current_token IN
    IF token # None
    THEN Exc("Exception", "syntax", message, FALSE, token.line, token.col, token.value)
    ELSE Exc("Exception", "syntax", message, TRUE, 0, 0, "")

\* token_value=None of expect()
NoValue == "<None>"

\* expect(token_type, token_value): NoErr when the terminal matches (the
\* caller then takes advance), else the exception raised
expect(token_type, token_value) ==
    LET token == current_token IN
    IF token = None THEN error("Unexpected end of input")
    ELSE IF token.kind # token_type
    THEN error("Expected token type " \o token_type \o " but got " \o token.kind)
    ELSE IF token_value # NoValue /\ token.value # token_value
    THEN error("Expected token value '" \o token_value \o "' but got '"
               \o token.value \o "'")
    ELSE NoErr

\* parse_expression(): the tagged tuple (the caller then takes advance), or
\* the exception raised
parse_expression ==
    LET token == current_token IN
    IF token = None
    THEN [err |-> error("Expected an expression but found end of input"),
          val |-> PyNone]
    ELSE IF token.kind = "NUMBER"
    THEN [err |-> NoErr, val |-> PyTuple(<<PyStr("num"), PyInt(token.num)>>)]
    ELSE IF token.kind = "HASHID"
    THEN [err |-> NoErr, val |-> PyTuple(<<PyStr("const"), PyStr(token.value)>>)]
    ELSE IF token.kind = "ID"
    THEN [err |-> NoErr, val |-> PyTuple(<<PyStr("id"), PyStr(token.value)>>)]
    ELSE [err |-> error("Expected an expression (NUMBER, ID, or HASHID)"),
          val |-> PyNone]

\* parse_condition() is parse_expression()
parse_condition == parse_expression

\* str.startswith
startswith(v, prefix) ==
    Len(v) >= Len(prefix) /\ SubSeq(v, 1, Len(prefix)) = prefix

(***************************************************************************)
(* Call frames and the outcome of one step of the function on top of the   *)
(* stack: continue in the frame, call a function, return a value, raise.   *)
(***************************************************************************)
Frame(fn, pc) ==
    [fn |-> fn, pc |-> pc, name |-> "", l1 |-> <<>>, l2 |-> <<>>,
     i |-> 1, line_num |-> 1, line_start |-> 0, toks |-> <<>>]
NoFrame == Frame("", "")

Outcome(k, fr, callee, arg, val, err, newpos) ==
    [k |-> k, fr |-> fr, callee |-> callee, arg |-> arg, val |-> val, err |-> err,
     pos |-> newpos, tokens |-> tokens, variables |-> variables,
     procedures |-> procedures]
Cont(fr, newpos) == Outcome("cont", fr, "", <<>>, PyNone, NoErr, newpos)
CallF(fr, callee, newpos) == Outcome("call", fr, callee, <<>>, PyNone, NoErr, newpos)
Return(val, newpos) == Outcome("ret", NoFrame, "", <<>>, val, NoErr, newpos)
Raise(err) == Outcome("raise", NoFrame, "", <<>>, PyNone, err, pos)

\* a step that needs expect(...) to succeed before it does o
Expecting(e, o) == IF e # NoErr THEN Raise(e) ELSE o

(***************************************************************************)
(* tokenize (logic.py:21-64).  fr.i is the 1-based index the next match    *)
(* starts at (mo.start() = fr.i - 1), fr.toks the local list tokens.       *)
(***************************************************************************)
\* a newline that leaves the line number as it was
NextLine_Same(line_num) == line_num

\* logic.py:58: line_num += 1
NextLine(line_num) == line_num + 1

\* logic.py:48-63: the body of the loop for the match that starts at i
Matched(fr, text, i) ==
    LET mo == token_regex(text, i)
        cs == SubSeq(text, i, mo.end - 1)
        value == group(cs)
        column == (i - 1) - fr.line_start
    IN
    IF mo.kind = "NUMBER"
    THEN Cont([fr EXCEPT !.i = mo.end,
                 !.toks = Append(@, Token(mo.kind, value, int(cs), fr.line_num, column))],
              pos)
    ELSE IF mo.kind \in {"ID", "HASHID"}
    THEN Cont([fr EXCEPT !.i = mo.end,
                 !.toks = Append(@, Token(mo.kind, value, 0, fr.line_num, column))],
              pos)
    ELSE IF mo.kind \in {"PIPE", "LBRACKET", "RBRACKET", "COLON", "DOT", "COMMA",
                         "ASSIGN"}
    THEN Cont([fr EXCEPT !.i = mo.end,
                 !.toks = Append(@, Token(mo.kind, value, 0, fr.line_num, column))],
              pos)
    ELSE IF mo.kind = "NEWLINE"
    THEN Cont([fr EXCEPT !.i = mo.end, !.line_num = NextLine(@), !.line_start = mo.end - 1],
              pos)
    ELSE IF mo.kind = "SKIP"
    THEN Cont([fr EXCEPT !.i = mo.end], pos)
    ELSE Raise(Exc("RuntimeError", "lexical", "Unexpected character", FALSE,
                   fr.line_num, 0, value))

\* logic.py:47, 64: the next match, or the end of the text
NextMatch(fr, text, i) ==
    IF i > Len(text) THEN Return(PyList(fr.toks), pos) ELSE Matched(fr, text, i)

\* one step of the loop: a run of blanks (SKIP, continue) together with the
\* match behind it
tokenize_step(fr, text) ==
    IF fr.i <= Len(text) /\ token_regex(text, fr.i).kind = "SKIP"
    THEN NextMatch(fr, text, token_regex(text, fr.i).end)
    ELSE NextMatch(fr, text, fr.i)

(***************************************************************************)
(* The parser functions, one step operator each: fr is the function's      *)
(* frame, rv the value its last callee returned.                           *)
(***************************************************************************)

\* program = {'variables': ..., 'procedures': ..., 'main': ...}
Program(vs, proc_defs, main) ==
    PyDict(<<"variables", "procedures", "main">>,
           <<PyList(vs), PyList(proc_defs), PyList(main)>>)

\* logic.py:116-127: the loop over procedure definitions, then the main block
ProgramRest(fr) ==
    IF current_token # None /\ current_token.kind = "ID"
       /\ current_token.value = "proc"
    THEN CallF([fr EXCEPT !.pc = "after_proc"], "parse_procedure_definition", pos)
    ELSE IF current_token # None /\ current_token.kind = "LBRACKET"
    THEN CallF([fr EXCEPT !.pc = "after_main"], "parse_code_block", pos)
    ELSE Return(Program(fr.l1, fr.l2, <<>>), pos)

parse_program_step(fr, rv) ==
    CASE fr.pc = "start" ->
           IF current_token # None /\ current_token.kind = "PIPE"
           THEN CallF([fr EXCEPT !.pc = "after_vars"],
                      "parse_variable_declaration", pos)
           ELSE ProgramRest([fr EXCEPT !.l1 = <<>>])
      [] fr.pc = "after_vars" -> ProgramRest([fr EXCEPT !.l1 = rv.items])
      [] fr.pc = "after_proc" -> ProgramRest([fr EXCEPT !.l2 = Append(@, rv)])
      [] fr.pc = "after_main" -> Return(Program(fr.l1, fr.l2, rv.items), pos)

\* logic.py:133-140: one iteration of the identifier loop, or the closing pipe
VarLoop(fr) ==
    IF current_token # None /\ current_token.kind = "ID"
    THEN Cont([fr EXCEPT !.pc = "comma",
                         !.l1 = Append(@, PyStr(current_token.value))], advance)
    ELSE Expecting(expect("PIPE", NoValue), Return(PyList(fr.l1), advance))

parse_variable_declaration_step(fr, rv) ==
    CASE fr.pc = "start" ->
           Expecting(expect("PIPE", NoValue), Cont([fr EXCEPT !.pc = "loop"], advance))
      [] fr.pc = "loop" -> VarLoop(fr)
      [] fr.pc = "comma" ->
           IF current_token # None /\ current_token.kind = "COMMA"
           THEN Cont([fr EXCEPT !.pc = "loop"], advance)
           ELSE VarLoop(fr)

\* proc_def = {'name': ..., 'params': ..., 'body': ...}
ProcDef(proc_name, params, body) ==
    PyDict(<<"name", "params", "body">>,
           <<PyStr(proc_name), PyList(params), body>>)

\* logic.py:155-158 and 162-165: the parameter name
ParamName(fr, message) ==
    IF current_token = None \/ current_token.kind # "ID"
    THEN Raise(error(message))
    ELSE Cont([fr EXCEPT !.pc = "params",
                         !.l1 = Append(@, PyStr(current_token.value))], advance)

parse_procedure_definition_step(fr, rv) ==
    CASE fr.pc = "start" ->
           Expecting(expect("ID", "proc"), Cont([fr EXCEPT !.pc = "name"], advance))
      [] fr.pc = "name" ->
           IF current_token = None \/ current_token.kind # "ID"
           THEN Raise(error("Expected procedure name after 'proc'"))
           ELSE Cont([fr EXCEPT !.pc = "params", !.name = current_token.value],
                     advance)
      [] fr.pc = "params" ->
           IF current_token # None /\ current_token.kind = "COLON"
           THEN Cont([fr EXCEPT !.pc = "param"], advance)
           ELSE IF current_token # None /\ current_token.kind = "ID"
                   /\ startswith(current_token.value, "and")
           THEN Cont([fr EXCEPT !.pc = "label"], advance)
           ELSE CallF([fr EXCEPT !.pc = "after_body"], "parse_code_block", pos)
      [] fr.pc = "param" -> ParamName(fr, "Expected parameter name after ':'")
      [] fr.pc = "label" ->
           Expecting(expect("COLON", NoValue),
                     Cont([fr EXCEPT !.pc = "and_param"], advance))
      [] fr.pc = "and_param" ->
           ParamName(fr, "Expected parameter name after 'and...:'")
      [] fr.pc = "after_body" ->
           LET proc_def == ProcDef(fr.name, fr.l1, rv) IN
           [Return(proc_def, pos) EXCEPT
               !.procedures = DictSet(procedures, fr.name, proc_def)]

\* a block that the end of the input closes as well
BlockLoop_EndCloses(fr) ==
    IF current_token = None THEN Return(PyList(fr.l1), pos)
    ELSE IF current_token.kind # "RBRACKET"
    THEN CallF([fr EXCEPT !.pc = "after_instr"], "parse_instruction", pos)
    ELSE Return(PyList(fr.l1), advance)

\* logic.py:178-181: the instruction loop, or the closing bracket
BlockLoop(fr) ==
    IF current_token # None /\ current_token.kind # "RBRACKET"
    THEN CallF([fr EXCEPT !.pc = "after_instr"], "parse_instruction", pos)
    ELSE Expecting(expect("RBRACKET", NoValue), Return(PyList(fr.l1), advance))

parse_code_block_step(fr, rv) ==
    CASE fr.pc = "start" ->
           Expecting(expect("LBRACKET", NoValue),
                     Cont([fr EXCEPT !.pc = "loop"], advance))
      [] fr.pc = "loop" -> BlockLoop(fr)
      [] fr.pc = "after_instr" -> BlockLoop([fr EXCEPT !.l1 = Append(@, rv)])

parse_instruction_step(fr, rv) ==
    CASE fr.pc = "start" ->
           LET token == current_token IN
           IF token = None
           THEN Raise(error("Unexpected end of input in instruction"))
           ELSE IF token.kind = "PIPE"
           THEN CallF([fr EXCEPT !.pc = "return"], "parse_variable_declaration", pos)
           ELSE IF token.kind = "ID" /\ token.value \in {"if", "while"}
           THEN CallF([fr EXCEPT !.pc = "return"], "parse_control_structure", pos)
           ELSE IF token.kind = "ID" /\ NextIs("ASSIGN")
           THEN CallF([fr EXCEPT !.pc = "return"], "parse_assignment", pos)
           ELSE CallF([fr EXCEPT !.pc = "return"], "parse_procedure_call", pos)
      [] fr.pc = "return" -> Return(rv, pos)

\* ('assign', var_name, expr)
Assign(var_name, expr) == PyTuple(<<PyStr("assign"), PyStr(var_name), expr>>)

\* an assignment that may go without its "." before the closing bracket
AssignEnd_OptionalDot(fr) ==
    IF current_token # None /\ current_token.kind = "RBRACKET"
    THEN Return(Assign(fr.name, fr.l1[1]), pos)
    ELSE Expecting(expect("DOT", NoValue),
                   Return(Assign(fr.name, fr.l1[1]), advance))

\* logic.py:204-206: expect('DOT') and the node returned
AssignEnd(fr) ==
    Expecting(expect("DOT", NoValue), Return(Assign(fr.name, fr.l1[1]), advance))

parse_assignment_step(fr, rv) ==
    CASE fr.pc = "start" ->
           IF current_token = None \/ current_token.kind # "ID"
           THEN Raise(error("Expected variable name in assignment"))
           ELSE Cont([fr EXCEPT !.pc = "assign", !.name = current_token.value],
                     advance)
      [] fr.pc = "assign" ->
           Expecting(expect("ASSIGN", NoValue),
                     Cont([fr EXCEPT !.pc = "expr"], advance))
      [] fr.pc = "expr" ->
           Expecting(parse_expression.err,
                     Cont([fr EXCEPT !.pc = "dot", !.l1 = <<parse_expression.val>>],
                          advance))
      [] fr.pc = "dot" -> AssignEnd(fr)

\* ('proc_call', proc_name, args)
ProcCall(proc_name, args) ==
    PyTuple(<<PyStr("proc_call"), PyStr(proc_name), PyList(args)>>)

\* a call that always needs its terminator
CallEnd_DotRequired(fr) ==
    LET token == current_token IN
    IF token # None /\ token.kind = "DOT"
    THEN Return(ProcCall(fr.name, fr.l1), advance)
    ELSE Raise(error("Expected token type DOT"))

\* a terminator that takes the closing bracket along
CallEnd_TakesBracket(fr) ==
    LET token == current_token IN
    IF token # None /\ token.kind \in {"DOT", "RBRACKET"}
    THEN Return(ProcCall(fr.name, fr.l1), advance)
    ELSE IF token # None
    THEN Raise(error("Expected token type DOT or end-of-block but got "
                     \o token.kind))
    ELSE Return(ProcCall(fr.name, fr.l1), pos)

\* logic.py:231-237: the terminator of a call
CallEnd(fr) ==
    LET token == current_token IN
    IF token # None /\ token.kind = "DOT"
    THEN Return(ProcCall(fr.name, fr.l1), advance)
    ELSE IF token # None /\ token.kind # "RBRACKET"
    THEN Raise(error("Expected token type DOT or end-of-block but got "
                     \o token.kind))
    ELSE Return(ProcCall(fr.name, fr.l1), pos)

parse_procedure_call_step(fr, rv) ==
    CASE fr.pc = "start" ->
           LET token == current_token IN
           IF token = None \/ token.kind # "ID"
           THEN Raise(error("Expected procedure name in procedure call"))
           ELSE Cont([fr EXCEPT !.pc = "args", !.name = token.value], advance)
      [] fr.pc = "args" ->
           LET token == current_token IN
           IF token = None THEN CallEnd(fr)
           ELSE IF token.kind = "COLON"
           THEN Cont([fr EXCEPT !.pc = "arg"], advance)
           ELSE IF token.kind = "ID" /\ NextIs("COLON")
           THEN Cont([fr EXCEPT !.pc = "label"], advance)
           ELSE CallEnd(fr)
      [] fr.pc = "label" ->
           Expecting(expect("COLON", NoValue), Cont([fr EXCEPT !.pc = "arg"], advance))
      [] fr.pc = "arg" ->
           Expecting(parse_expression.err,
                     Cont([fr EXCEPT !.pc = "args",
                                     !.l1 = Append(@, parse_expression.val)], advance))

parse_control_structure_step(fr, rv) ==
    CASE fr.pc = "start" ->
           LET token == current_token IN
           IF token.kind = "ID" /\ token.value = "while"
           THEN CallF([fr EXCEPT !.pc = "return"], "parse_while_structure", pos)
           ELSE IF token.kind = "ID" /\ token.value = "if"
           THEN CallF([fr EXCEPT !.pc = "return"], "parse_if_structure", pos)
           ELSE Raise(error("Unknown control structure"))
      [] fr.pc = "return" -> Return(rv, pos)

\* a condition loop that leaves an expression where it is
CondLoop_Stalls(fr, keyword) ==
    IF current_token # None
       /\ ~(current_token.kind = "ID" /\ current_token.value = keyword)
    THEN IF current_token.kind = "COLON"
         THEN Cont([fr EXCEPT !.pc = "colon_expr", !.l1 = Append(@, PyStr(":"))],
                   advance)
         ELSE Expecting(parse_expression.err, Cont([fr EXCEPT !.pc = "loop"], pos))
    ELSE Expecting(expect("ID", keyword), Cont([fr EXCEPT !.pc = "keyword"], advance))

\* logic.py:255-262 and 273-280: the condition parts up to the keyword
CondLoop(fr, keyword) ==
    IF current_token # None
       /\ ~(current_token.kind = "ID" /\ current_token.value = keyword)
    THEN IF current_token.kind = "COLON"
         THEN Cont([fr EXCEPT !.pc = "colon_expr", !.l1 = Append(@, PyStr(":"))],
                   advance)
         ELSE Expecting(parse_expression.err,
                        Cont([fr EXCEPT !.pc = "loop",
                                        !.l1 = Append(@, parse_expression.val)],
                             advance))
    ELSE Expecting(expect("ID", keyword), Cont([fr EXCEPT !.pc = "keyword"], advance))

\* the steps parse_while_structure and parse_if_structure share
CondHead(fr, opener, keyword, after) ==
    CASE fr.pc = "start" ->
           Expecting(expect("ID", opener), Cont([fr EXCEPT !.pc = "colon"], advance))
      [] fr.pc = "colon" ->
           Expecting(expect("COLON", NoValue), Cont([fr EXCEPT !.pc = "cond"], advance))
      [] fr.pc = "cond" ->
           Expecting(parse_condition.err,
                     Cont([fr EXCEPT !.pc = "loop", !.l1 = <<parse_condition.val>>],
                          advance))
      [] fr.pc = "loop" -> CondLoop(fr, keyword)
      [] fr.pc = "colon_expr" ->
           Expecting(parse_expression.err,
                     Cont([fr EXCEPT !.pc = "loop",
                                     !.l1 = Append(@, parse_expression.val)], advance))
      [] fr.pc = "keyword" ->
           Expecting(expect("COLON", NoValue),
                     CallF([fr EXCEPT !.pc = after], "parse_code_block", advance))

parse_while_structure_step(fr, rv) ==
    IF fr.pc = "after_block"
    THEN Return(PyTuple(<<PyStr("while"), PyList(fr.l1), rv>>), pos)
    ELSE CondHead(fr, "while", "do", "after_block")

parse_if_structure_step(fr, rv) ==
    CASE fr.pc = "after_then" ->
           IF current_token # None /\ current_token.kind = "ID"
              /\ current_token.value = "else"
           THEN Cont([fr EXCEPT !.pc = "else", !.l2 = <<rv>>], advance)
           ELSE Return(PyTuple(<<PyStr("if"), PyList(fr.l1), rv, PyNone>>), pos)
      [] fr.pc = "else" ->
           Expecting(expect("COLON", NoValue),
                     CallF([fr EXCEPT !.pc = "after_else"], "parse_code_block", advance))
      [] fr.pc = "after_else" ->
           Return(PyTuple(<<PyStr("if"), PyList(fr.l1), fr.l2[1], rv>>), pos)
      [] OTHER -> CondHead(fr, "if", "then", "after_then")

(***************************************************************************)
(* Semantic analysis (logic.py:324-355).                                   *)
(***************************************************************************)
SemanticError(msg) == Exc("Exception", "semantic", msg, FALSE, 0, 0, "")

\* logic.py:339, 343, 347, 351: the arguments lack a constant at place k
LacksConst(args, k) == Len(args) < k \/ args[k].items[1].s # "const"

\* logic.py:337-352: the rule of a proc_call node, NoErr when it passes
CommandRule(proc_name, args) ==
    IF proc_name = "face"
    THEN IF LacksConst(args, 1)
         THEN SemanticError("'face' command requires a constant argument")
         ELSE NoErr
    ELSE IF proc_name = "turn"
    THEN IF LacksConst(args, 1)
         THEN SemanticError("'turn' command requires a constant argument")
         ELSE NoErr
    ELSE IF proc_name = "put"
    THEN IF LacksConst(args, 2)
         THEN SemanticError("'put' command requires a constant type argument")
         ELSE NoErr
    ELSE IF proc_name = "pick"
    THEN IF LacksConst(args, 2)
         THEN SemanticError("'pick' command requires a constant type argument")
         ELSE NoErr
    ELSE NoErr

\* a walk that leaves out the else-block of an if node
TupleItems_ThenOnly(node) ==
    IF Len(node.items) > 3 THEN SubSeq(node.items, 1, 3) ELSE node.items

\* logic.py:353-355: which items of a tuple node the walk descends into
TupleItems(node) == node.items

RECURSIVE check_semantics_node(_)
RECURSIVE check_semantics_each(_)
\* check_semantics(node): the first exception raised, NoErr when none is
check_semantics_node(node) ==
    IF node.ty = "dict" THEN check_semantics_each(node.items)
    ELSE IF node.ty = "list" THEN check_semantics_each(node.items)
    ELSE IF node.ty = "tuple"
    THEN LET own == IF node.items[1].ty = "str" /\ node.items[1].s = "proc_call"
                    THEN CommandRule(node.items[2].s, node.items[3].items)
                    ELSE NoErr
         IN IF own # NoErr THEN own ELSE check_semantics_each(TupleItems(node))
    ELSE NoErr

\* the for loops of check_semantics: items in order, stopping at the first raise
check_semantics_each(items) ==
    IF items = <<>> THEN NoErr
    ELSE LET e == check_semantics_node(Head(items)) IN
         IF e # NoErr THEN e ELSE check_semantics_each(Tail(items))

check_semantics_step(fr, rv) ==
    Expecting(check_semantics_node(fr.l1[1]), Return(PyNone, pos))

(***************************************************************************)
(* check_file (logic.py:361-388).                                          *)
(***************************************************************************)
PyBool(b) == [ty |-> "bool", s |-> "", n |-> IF b THEN 1 ELSE 0,
              keys |-> <<>>, items |-> <<>>]

\* a cursor left where the call before this one put it
ResetPos_Kept == pos

\* logic.py:372: pos = 0
ResetPos == 0

\* a count check that only asks for enough identifiers
GlobalCountOk_AtLeast(n) == n >= 4

\* a count check that lets every count pass
GlobalCountOk_Any(n) == TRUE

\* logic.py:377: the global declaration has the required length
GlobalCountOk(n) == n = 4

\* a cursor that only has to stay inside the token list
Consumed_Within == pos <= Len(tokens)

\* logic.py:380: every token was consumed
Consumed == pos = Len(tokens)

check_file_step(fr, rv, f) ==
    CASE fr.pc = "open" ->
           IF ~f.exists
           THEN Raise(Exc("FileNotFoundError", "io", "No such file or directory",
                          FALSE, 0, 0, ""))
           ELSE CallF([fr EXCEPT !.pc = "tokens"], "tokenize", pos)
      [] fr.pc = "tokens" ->
           [Cont([fr EXCEPT !.pc = "pos"], pos) EXCEPT !.tokens = rv.items]
      [] fr.pc = "pos" -> Cont([fr EXCEPT !.pc = "variables"], ResetPos)
      [] fr.pc = "variables" ->
           [Cont([fr EXCEPT !.pc = "procedures"], pos) EXCEPT !.variables = {}]
      [] fr.pc = "procedures" ->
           [Cont([fr EXCEPT !.pc = "parse"], pos) EXCEPT
               !.procedures = PyDict(<<>>, <<>>)]
      [] fr.pc = "parse" -> CallF([fr EXCEPT !.pc = "count"], "parse_program", pos)
      [] fr.pc = "count" ->
           IF ~GlobalCountOk(Len(DictGet(rv, "variables").items))
           THEN Raise(Exc("Exception", "structural",
                          "Global variable declaration must have exactly 4 identifiers.",
                          FALSE, 0, 0, ""))
           ELSE Cont([fr EXCEPT !.pc = "consumed", !.l1 = <<rv>>], pos)
      [] fr.pc = "consumed" ->
           IF ~Consumed
           THEN Raise(Exc("Exception", "structural",
                          "Extra tokens found at the end of the input.",
                          FALSE, 0, 0, ""))
           ELSE [CallF([fr EXCEPT !.pc = "accept"], "check_semantics", pos)
                    EXCEPT !.arg = fr.l1]
      [] fr.pc = "accept" -> Return(PyBool(TRUE), pos)

\* the classes the exceptions raised here derive from
Superclass(cls) ==
    CASE cls = "RuntimeError" -> "Exception"
      [] cls = "FileNotFoundError" -> "OSError"
      [] cls = "OSError" -> "Exception"
      [] cls = "Exception" -> "BaseException"
      [] OTHER -> ""

RECURSIVE IsInstance(_, _)
IsInstance(cls, base) ==
    cls # "" /\ (cls = base \/ IsInstance(Superclass(cls), base))

\* a handler for the class Exception itself only
Caught_ExactClass(cls) == cls = "Exception"

\* logic.py:385: except Exception
Caught(cls) == IsInstance(cls, "Exception")

(***************************************************************************)
(* The machine.                                                            *)
(***************************************************************************)
Callers == {1, 2}

NoFile == [exists |-> FALSE, text |-> <<>>]
NoResult == [status |-> "none", value |-> FALSE, reason |-> NoErr]
NoFirst == [set |-> FALSE, file |-> NoFile, result |-> NoResult]

Top(t) == stack[t][Len(stack[t])]
\* The steps of tokenize touch local variables only and commute with every
\* step of another caller, so a caller inside tokenize is run first.
InLexer(t) == stack[t] # <<>> /\ Top(t).fn = "tokenize"
Scheduled(t) == \A u \in Callers \ {t} : InLexer(u) => (InLexer(t) /\ t < u)

\* caller t is scheduled and function fn is on top of its stack
Running(t, fn) == stack[t] # <<>> /\ Top(t).fn = fn /\ Scheduled(t)
SetTop(st, fr) == [st EXCEPT ![Len(st)] = fr]
Pop(st) == SubSeq(st, 1, Len(st) - 1)

\* a finished call: what check_file handed back to its caller
Finished(t, res) ==
    /\ stack' = [stack EXCEPT ![t] = <<>>]
    /\ result' = [result EXCEPT ![t] = res]
    /\ first' = IF first.set THEN first
                ELSE [set |-> TRUE, file |-> file[t], result |-> res]
    /\ UNCHANGED ret

\* the effect of one step's outcome o on caller t and on the module state
Apply(t, o) ==
    /\ tokens' = o.tokens
    /\ pos' = o.pos
    /\ variables' = o.variables
    /\ procedures' = o.procedures
    /\ UNCHANGED file
    /\ program' = IF Top(t).fn = "check_file" /\ Top(t).pc = "count"
                  THEN [program EXCEPT ![t] = ret[t]]
                  ELSE program
    /\ CASE o.k = "cont" ->
              /\ stack' = [stack EXCEPT ![t] = SetTop(@, o.fr)]
              /\ UNCHANGED <<ret, result, first>>
         [] o.k = "call" ->
              /\ stack' = [stack EXCEPT ![t] =
                    Append(SetTop(@, o.fr),
                           [Frame(o.callee, "start") EXCEPT !.l1 = o.arg])]
              /\ UNCHANGED <<ret, result, first>>
         [] o.k = "ret" /\ Len(stack[t]) > 1 ->
              /\ stack' = [stack EXCEPT ![t] = Pop(@)]
              /\ ret' = [ret EXCEPT ![t] = o.val]
              /\ UNCHANGED <<result, first>>
         [] o.k = "ret" /\ Len(stack[t]) = 1 ->
              Finished(t, [status |-> "returned", value |-> o.val.n = 1,
                           reason |-> NoErr])
         [] o.k = "raise" ->
              IF Caught(o.err.cls)
              THEN Finished(t, [status |-> "returned", value |-> FALSE,
                                reason |-> o.err])
              ELSE Finished(t, [status |-> "escaped", value |-> FALSE,
                                reason |-> o.err])

Init ==
    /\ tokens = <<>>
    /\ pos = 0
    /\ variables = {}
    /\ procedures = PyDict(<<>>, <<>>)
    /\ stack = [t \in Callers |-> <<>>]
    /\ ret = [t \in Callers |-> PyNone]
    /\ file = [t \in Callers |-> NoFile]
    /\ program = [t \in Callers |-> PyNone]
    /\ result = [t \in Callers |-> NoResult]
    /\ first = NoFirst

\* main.py:16: the process calls check_file(filename)
main(t, f) ==
    /\ stack[t] = <<>>
    /\ result[t].status = "none"
    /\ stack' = [stack EXCEPT ![t] = <<Frame("check_file", "open")>>]
    /\ file' = [file EXCEPT ![t] = f]
    /\ UNCHANGED <<tokens, pos, variables, procedures, ret, program, result, first>>

\* a further call of check_file in the same process, after one has returned
check_file_again(t, f) ==
    /\ stack[t] = <<>>
    /\ result[t].status = "returned"
    /\ stack' = [stack EXCEPT ![t] = <<Frame("check_file", "open")>>]
    /\ file' = [file EXCEPT ![t] = f]
    /\ result' = [result EXCEPT ![t] = NoResult]
    /\ program' = [program EXCEPT ![t] = PyNone]
    /\ UNCHANGED <<tokens, pos, variables, procedures, ret, first>>

check_file(t) ==
    Running(t, "check_file") /\ Apply(t, check_file_step(Top(t), ret[t], file[t]))
tokenize(t) ==
    Running(t, "tokenize") /\ Apply(t, tokenize_step(Top(t), file[t].text))
parse_program(t) ==
    Running(t, "parse_program") /\ Apply(t, parse_program_step(Top(t), ret[t]))
parse_variable_declaration(t) ==
    /\ Running(t, "parse_variable_declaration")
    /\ Apply(t, parse_variable_declaration_step(Top(t), ret[t]))
parse_procedure_definition(t) ==
    /\ Running(t, "parse_procedure_definition")
    /\ Apply(t, parse_procedure_definition_step(Top(t), ret[t]))
parse_code_block(t) ==
    Running(t, "parse_code_block") /\ Apply(t, parse_code_block_step(Top(t), ret[t]))
parse_instruction(t) ==
    Running(t, "parse_instruction") /\ Apply(t, parse_instruction_step(Top(t), ret[t]))
parse_assignment(t) ==
    Running(t, "parse_assignment") /\ Apply(t, parse_assignment_step(Top(t), ret[t]))
parse_procedure_call(t) ==
    /\ Running(t, "parse_procedure_call")
    /\ Apply(t, parse_procedure_call_step(Top(t), ret[t]))
parse_control_structure(t) ==
    /\ Running(t, "parse_control_structure")
    /\ Apply(t, parse_control_structure_step(Top(t), ret[t]))
parse_while_structure(t) ==
    /\ Running(t, "parse_while_structure")
    /\ Apply(t, parse_while_structure_step(Top(t), ret[t]))
parse_if_structure(t) ==
    Running(t, "parse_if_structure") /\ Apply(t, parse_if_structure_step(Top(t), ret[t]))
check_semantics(t) ==
    Running(t, "check_semantics") /\ Apply(t, check_semantics_step(Top(t), ret[t]))

\* one step of caller t, whichever function is on top of its stack
Step(t) ==
    \/ check_file(t)
    \/ tokenize(t)
    \/ parse_program(t)
    \/ parse_variable_declaration(t)
    \/ parse_procedure_definition(t)
    \/ parse_code_block(t)
    \/ parse_instruction(t)
    \/ parse_assignment(t)
    \/ parse_procedure_call(t)
    \/ parse_control_structure(t)
    \/ parse_while_structure(t)
    \/ parse_if_structure(t)
    \/ check_semantics(t)

(***************************************************************************)
(* Source texts.  A text is the sequence of the characters of the file.    *)
(***************************************************************************)
\* pieces of source text
\* | a b c d | 
Decl4 ==
    <<"|", " ", "a", " ", "b", " ", "c", " ", "d", " ", "|", " ">>

\* | a a a a | 
DeclDup ==
    <<"|", " ", "a", " ", "a", " ", "a", " ", "a", " ", "|", " ">>

\* [ 
OpenMain ==
    <<"[", " ">>

\*  ]
CloseBlock ==
    <<" ", "]">>

\* proc p [ 
OpenProc ==
    <<"p", "r", "o", "c", " ", "p", " ", "[", " ">>

\*  ] [ ]
CloseProc ==
    <<" ", "]", " ", "[", " ", "]">>

\* while: a do: [ 
OpenWhile ==
    <<"w", "h", "i", "l", "e", ":", " ", "a", " ", "d", "o", ":", " ", "[",
      " ">>

\* if: a then: [ 
OpenIf ==
    <<"i", "f", ":", " ", "a", " ", "t", "h", "e", "n", ":", " ", "[", " ">>

\* if: a then: [ ] else: [ 
OpenElse ==
    <<"i", "f", ":", " ", "a", " ", "t", "h", "e", "n", ":", " ", "[", " ",
      "]", " ", "e", "l", "s", "e", ":", " ", "[", " ">>

\* program bodies behind the global declaration
\* (empty)
BodyNone ==
    <<>>

\* [ ]
BodyEmpty ==
    <<"[", " ", "]">>

\* proc move [ forward. ] [ move. ]
BodyMove ==
    <<"p", "r", "o", "c", " ", "m", "o", "v", "e", " ", "[", " ", "f", "o",
      "r", "w", "a", "r", "d", ".", " ", "]", " ", "[", " ", "m", "o", "v",
      "e", ".", " ", "]">>

Bodies ==
    {BodyNone, BodyEmpty, BodyMove}

\* calls that satisfy the rules of the four commands
\* face: #north.
FaceNorth ==
    <<"f", "a", "c", "e", ":", " ", "#", "n", "o", "r", "t", "h", ".">>

\* turn: #left.
TurnLeft ==
    <<"t", "u", "r", "n", ":", " ", "#", "l", "e", "f", "t", ".">>

\* put: 5 andBalloons: #chips.
PutChips ==
    <<"p", "u", "t", ":", " ", "5", " ", "a", "n", "d", "B", "a", "l", "l",
      "o", "o", "n", "s", ":", " ", "#", "c", "h", "i", "p", "s", ".">>

\* pick: 2 ofType: #balloons
PickBalloons ==
    <<"p", "i", "c", "k", ":", " ", "2", " ", "o", "f", "T", "y", "p", "e",
      ":", " ", "#", "b", "a", "l", "l", "o", "o", "n", "s">>

\* move: 1 b: 2.
MoveCall ==
    <<"m", "o", "v", "e", ":", " ", "1", " ", "b", ":", " ", "2", ".">>

GoodCalls ==
    {FaceNorth, TurnLeft, PutChips, PickBalloons, MoveCall}

\* calls with a constant of another vocabulary
\* face: #purple.
FacePurple ==
    <<"f", "a", "c", "e", ":", " ", "#", "p", "u", "r", "p", "l", "e", ".">>

\* turn: #north.
TurnNorth ==
    <<"t", "u", "r", "n", ":", " ", "#", "n", "o", "r", "t", "h", ".">>

\* put: 1 of: #left.
PutLeft ==
    <<"p", "u", "t", ":", " ", "1", " ", "o", "f", ":", " ", "#", "l", "e",
      "f", "t", ".">>

\* pick: 1 of: #north
PickNorth ==
    <<"p", "i", "c", "k", ":", " ", "1", " ", "o", "f", ":", " ", "#", "n",
      "o", "r", "t", "h">>

VocabularyCalls ==
    {FacePurple, TurnNorth, PutLeft, PickNorth}

\* calls that lack the constant argument
\* face.
FaceBare ==
    <<"f", "a", "c", "e", ".">>

\* face: 5.
FaceNumber ==
    <<"f", "a", "c", "e", ":", " ", "5", ".">>

\* face: x
FaceId ==
    <<"f", "a", "c", "e", ":", " ", "x">>

\* face: 1 to: #north.
FaceSecond ==
    <<"f", "a", "c", "e", ":", " ", "1", " ", "t", "o", ":", " ", "#", "n",
      "o", "r", "t", "h", ".">>

\* turn
TurnBare ==
    <<"t", "u", "r", "n">>

\* turn: 30.
TurnNumber ==
    <<"t", "u", "r", "n", ":", " ", "3", "0", ".">>

\* put: 5.
PutOne ==
    <<"p", "u", "t", ":", " ", "5", ".">>

\* put: #chips of: 5.
PutFirst ==
    <<"p", "u", "t", ":", " ", "#", "c", "h", "i", "p", "s", " ", "o", "f",
      ":", " ", "5", ".">>

\* put: 5 of: x.
PutId ==
    <<"p", "u", "t", ":", " ", "5", " ", "o", "f", ":", " ", "x", ".">>

\* pick.
PickBare ==
    <<"p", "i", "c", "k", ".">>

\* pick: 1 of: 2.
PickNumber ==
    <<"p", "i", "c", "k", ":", " ", "1", " ", "o", "f", ":", " ", "2", ".">>

LackingCalls ==
    {FaceBare, FaceNumber, FaceId, FaceSecond, TurnBare, TurnNumber,
     PutOne, PutFirst, PutId, PickBare, PickNumber}

\* tokens left behind a complete program
\*  [ ]
TailBlock ==
    <<" ", "[", " ", "]">>

\*  move.
TailCall ==
    <<" ", "m", "o", "v", "e", ".">>

\*  proc p [ ]
TailProc ==
    <<" ", "p", "r", "o", "c", " ", "p", " ", "[", " ", "]">>

\*  ]
TailBracket ==
    <<" ", "]">>

\*  | a |
TailDecl ==
    <<" ", "|", " ", "a", " ", "|">>

Tails ==
    {TailBlock, TailCall, TailProc, TailBracket, TailDecl}

\* characters no pattern matches
\* $
StrayDollar ==
    <<"$">>

\* #
StrayHash ==
    <<"#">>

\* #1
StrayHashDigit ==
    <<"#", "1">>

\* \n\n ?
StrayLater ==
    <<"\n", "\n", " ", "?">>

\* \t\n@ [ ]
StrayCr ==
    <<"\t", "\n", "@", " ", "[", " ", "]">>

\* =
StrayEqual ==
    <<"=">>

Strays ==
    {StrayDollar, StrayHash, StrayHashDigit, StrayLater, StrayCr, StrayEqual}

\* whole programs of other shapes
\* | a b c d | [ x := 5. y := #north. z := x. ]
Assignment ==
    <<"|", " ", "a", " ", "b", " ", "c", " ", "d", " ", "|", " ", "[", " ",
      "x", " ", ":", "=", " ", "5", ".", " ", "y", " ", ":", "=", " ", "#",
      "n", "o", "r", "t", "h", ".", " ", "z", " ", ":", "=", " ", "x", ".",
      " ", "]">>

\* | a b c d | [ x := 5 ]
AssignmentBare ==
    <<"|", " ", "a", " ", "b", " ", "c", " ", "d", " ", "|", " ", "[", " ",
      "x", " ", ":", "=", " ", "5", " ", "]">>

\* | a, b, c, d | [ | k, j | k := 12. ]
Locals ==
    <<"|", " ", "a", ",", " ", "b", ",", " ", "c", ",", " ", "d", " ", "|",
      " ", "[", " ", "|", " ", "k", ",", " ", "j", " ", "|", " ", "k", " ",
      ":", "=", " ", "1", "2", ".", " ", "]">>

\* | a b c d | proc go: x andy: z [ go: x y: z. ] proc andgo [ ] [ ]
Params ==
    <<"|", " ", "a", " ", "b", " ", "c", " ", "d", " ", "|", " ", "p", "r",
      "o", "c", " ", "g", "o", ":", " ", "x", " ", "a", "n", "d", "y", ":",
      " ", "z", " ", "[", " ", "g", "o", ":", " ", "x", " ", "y", ":", " ",
      "z", ".", " ", "]", " ", "p", "r", "o", "c", " ", "a", "n", "d", "g",
      "o", " ", "[", " ", "]", " ", "[", " ", "]">>

\* | a b c d | proc p [ ] proc p: x [ a. ]
Redefined ==
    <<"|", " ", "a", " ", "b", " ", "c", " ", "d", " ", "|", " ", "p", "r",
      "o", "c", " ", "p", " ", "[", " ", "]", " ", "p", "r", "o", "c", " ",
      "p", ":", " ", "x", " ", "[", " ", "a", ".", " ", "]">>

\* | a b c d | [ while: a : b 3 #c do: [ ] if: do then then: [ ] ]
Conditions ==
    <<"|", " ", "a", " ", "b", " ", "c", " ", "d", " ", "|", " ", "[", " ",
      "w", "h", "i", "l", "e", ":", " ", "a", " ", ":", " ", "b", " ", "3",
      " ", "#", "c", " ", "d", "o", ":", " ", "[", " ", "]", " ", "i", "f",
      ":", " ", "d", "o", " ", "t", "h", "e", "n", " ", "t", "h", "e", "n",
      ":", " ", "[", " ", "]", " ", "]">>

\* | a b c d |\nproc p [\n\tface: #north.\n]\n[ p. ]\n
Lines ==
    <<"|", " ", "a", " ", "b", " ", "c", " ", "d", " ", "|", "\n", "p",
      "r", "o", "c", " ", "p", " ", "[", "\n", "\t", "f", "a", "c", "e",
      ":", " ", "#", "n", "o", "r", "t", "h", ".", "\n", "]", "\n", "[",
      " ", "p", ".", " ", "]", "\n">>

\* | a b c d | [ if: a then: [ ] else. ]
ElseCall ==
    <<"|", " ", "a", " ", "b", " ", "c", " ", "d", " ", "|", " ", "[", " ",
      "i", "f", ":", " ", "a", " ", "t", "h", "e", "n", ":", " ", "[", " ",
      "]", " ", "e", "l", "s", "e", ".", " ", "]">>

\* | a b c d | [ if: a then: [ ] else := 5. ]
ElseAssign ==
    <<"|", " ", "a", " ", "b", " ", "c", " ", "d", " ", "|", " ", "[", " ",
      "i", "f", ":", " ", "a", " ", "t", "h", "e", "n", ":", " ", "[", " ",
      "]", " ", "e", "l", "s", "e", " ", ":", "=", " ", "5", ".", " ", "]">>

\* | a b c d | [ move move ]
TwoCalls ==
    <<"|", " ", "a", " ", "b", " ", "c", " ", "d", " ", "|", " ", "[", " ",
      "m", "o", "v", "e", " ", "m", "o", "v", "e", " ", "]">>

\* | a b c d | proc [ ]
NoName ==
    <<"|", " ", "a", " ", "b", " ", "c", " ", "d", " ", "|", " ", "p", "r",
      "o", "c", " ", "[", " ", "]">>

\* | a b c d | proc p: [ ]
NoParam ==
    <<"|", " ", "a", " ", "b", " ", "c", " ", "d", " ", "|", " ", "p", "r",
      "o", "c", " ", "p", ":", " ", "[", " ", "]">>

\* | a b c d | proc p andx [ ]
AndNoColon ==
    <<"|", " ", "a", " ", "b", " ", "c", " ", "d", " ", "|", " ", "p", "r",
      "o", "c", " ", "p", " ", "a", "n", "d", "x", " ", "[", " ", "]">>

\* | a b c d | [ 5. ]
NumberFirst ==
    <<"|", " ", "a", " ", "b", " ", "c", " ", "d", " ", "|", " ", "[", " ",
      "5", ".", " ", "]">>

\* | a,, b c d | [ ]
CommaTwice ==
    <<"|", " ", "a", ",", ",", " ", "b", " ", "c", " ", "d", " ", "|", " ",
      "[", " ", "]">>

\* | a b c d | [ while: a [ ] ]
WhileNoDo ==
    <<"|", " ", "a", " ", "b", " ", "c", " ", "d", " ", "|", " ", "[", " ",
      "w", "h", "i", "l", "e", ":", " ", "a", " ", "[", " ", "]", " ", "]">>

\* | a b c d | [ if a then: [ ] ]
IfNoColon ==
    <<"|", " ", "a", " ", "b", " ", "c", " ", "d", " ", "|", " ", "[", " ",
      "i", "f", " ", "a", " ", "t", "h", "e", "n", ":", " ", "[", " ", "]",
      " ", "]">>

\* | a b c d | [ face: . ]
CallNoExpr ==
    <<"|", " ", "a", " ", "b", " ", "c", " ", "d", " ", "|", " ", "[", " ",
      "f", "a", "c", "e", ":", " ", ".", " ", "]">>

\* [ ]
OnlyBlock ==
    <<"[", " ", "]">>

\* (empty)
Nothing ==
    <<>>

OtherPrograms ==
    {Assignment, AssignmentBare, Locals, Params, Redefined, Conditions,
     Lines, ElseCall, ElseAssign, TwoCalls, NoName, NoParam, AndNoColon,
     NumberFirst, CommaTwice, WhileNoDo, IfNoColon, CallNoExpr, OnlyBlock,
     Nothing}

\* programs with a block left open
\* | a b c d | proc p [ move. [ move. ]
OpenInner ==
    <<"|", " ", "a", " ", "b", " ", "c", " ", "d", " ", "|", " ", "p", "r",
      "o", "c", " ", "p", " ", "[", " ", "m", "o", "v", "e", ".", " ", "[",
      " ", "m", "o", "v", "e", ".", " ", "]">>

\* | a b c d | [ ] [
OpenAfter ==
    <<"|", " ", "a", " ", "b", " ", "c", " ", "d", " ", "|", " ", "[", " ",
      "]", " ", "[">>

\* | a b c | [ ] [
OpenShort ==
    <<"|", " ", "a", " ", "b", " ", "c", " ", "|", " ", "[", " ", "]", " ",
      "[">>

\* | a b c d | [ move bar
OpenCalls ==
    <<"|", " ", "a", " ", "b", " ", "c", " ", "d", " ", "|", " ", "[", " ",
      "m", "o", "v", "e", " ", "b", "a", "r">>

\* | a b c d | [ x := 5
OpenAssign ==
    <<"|", " ", "a", " ", "b", " ", "c", " ", "d", " ", "|", " ", "[", " ",
      "x", " ", ":", "=", " ", "5">>

\* | a b c d | [ put: 5 of:
OpenLabel ==
    <<"|", " ", "a", " ", "b", " ", "c", " ", "d", " ", "|", " ", "[", " ",
      "p", "u", "t", ":", " ", "5", " ", "o", "f", ":">>

\* | a b c d | [ while: a do: [ move. ]
OpenWhile2 ==
    <<"|", " ", "a", " ", "b", " ", "c", " ", "d", " ", "|", " ", "[", " ",
      "w", "h", "i", "l", "e", ":", " ", "a", " ", "d", "o", ":", " ", "[",
      " ", "m", "o", "v", "e", ".", " ", "]">>

\* | a b c d | [ if: a
OpenCond ==
    <<"|", " ", "a", " ", "b", " ", "c", " ", "d", " ", "|", " ", "[", " ",
      "i", "f", ":", " ", "a">>

OpenPrograms ==
    {OpenInner, OpenAfter, OpenShort, OpenCalls, OpenAssign, OpenLabel,
     OpenWhile2, OpenCond}

\* programs that use every construct of the language
\* | a b c d | proc p: x [ | k | k := 1. ] [ while: a do: [ p: 1. ] if: a then: [ face: #north ] else: [ ] ]
Everything ==
    <<"|", " ", "a", " ", "b", " ", "c", " ", "d", " ", "|", " ", "p", "r",
      "o", "c", " ", "p", ":", " ", "x", " ", "[", " ", "|", " ", "k", " ",
      "|", " ", "k", " ", ":", "=", " ", "1", ".", " ", "]", " ", "[", " ",
      "w", "h", "i", "l", "e", ":", " ", "a", " ", "d", "o", ":", " ", "[",
      " ", "p", ":", " ", "1", ".", " ", "]", " ", "i", "f", ":", " ", "a",
      " ", "t", "h", "e", "n", ":", " ", "[", " ", "f", "a", "c", "e", ":",
      " ", "#", "n", "o", "r", "t", "h", " ", "]", " ", "e", "l", "s", "e",
      ":", " ", "[", " ", "]", " ", "]">>

\* | a b c d | [ move. ]
Small ==
    <<"|", " ", "a", " ", "b", " ", "c", " ", "d", " ", "|", " ", "[", " ",
      "m", "o", "v", "e", ".", " ", "]">>

\* |a b c d|proc p[x:=1.][while:a do:[]if:a then:[]]
Compact ==
    <<"|", "a", " ", "b", " ", "c", " ", "d", "|", "p", "r", "o", "c", " ",
      "p", "[", "x", ":", "=", "1", ".", "]", "[", "w", "h", "i", "l", "e",
      ":", "a", " ", "d", "o", ":", "[", "]", "i", "f", ":", "a", " ", "t",
      "h", "e", "n", ":", "[", "]", "]">>

\* |a b c d|[]
Tiny ==
    <<"|", "a", " ", "b", " ", "c", " ", "d", "|", "[", "]">>

\* identifiers of a global declaration
Ids == <<"a", "b", "c", "d", "e", "f", "g", "h">>

\* n identifiers separated by sep
RECURSIVE IdList(_, _)
IdList(n, sep) ==
    IF n = 0 THEN <<>>
    ELSE IdList(n - 1, sep) \o (IF n > 1 THEN sep ELSE <<>>)
         \o <<Ids[((n - 1) % Len(Ids)) + 1]>>

\* the declaration | id sep id ... |
Declaration(n, sep) == <<"|", " ">> \o IdList(n, sep) \o <<" ", "|", " ">>

Separators == {<<" ">>, <<",", " ">>}

Declarations ==
    {<<>>, DeclDup}
    \cup {Declaration(n, sep) : n \in 0..MaxGlobals, sep \in Separators}

InMain(x) == Decl4 \o OpenMain \o x \o CloseBlock
InProc(x) == Decl4 \o OpenProc \o x \o CloseProc
InWhile(x) == OpenWhile \o x \o CloseBlock
InIf(x) == OpenIf \o x \o CloseBlock
InElse(x) == OpenElse \o x \o CloseBlock

\* the instructions of S inside up to d nested control structures
RECURSIVE Nest(_, _)
Nest(d, S) ==
    IF d = 0 THEN S
    ELSE LET inner == Nest(d - 1, S) IN
         S \cup {InWhile(x) : x \in inner} \cup {InIf(x) : x \in inner}
           \cup {InElse(x) : x \in inner}

Calls == GoodCalls \cup VocabularyCalls \cup LackingCalls
NestedCalls == {FaceNorth, FacePurple, FaceNumber, PutOne}
Instructions == Calls \cup Nest(MaxNest, NestedCalls)

\* a text without its last character
Chop(x) == SubSeq(x, 1, Len(x) - 1)

\* programs the validator accepts, each ending in the ] of a block
ClosedPrograms ==
    {InMain(x) : x \in GoodCalls} \cup {InMain(InWhile(FaceNorth))}
    \cup {Decl4 \o BodyEmpty, Decl4 \o BodyMove, Assignment, Locals, Params,
          Everything, Compact, Tiny}

Complete == {Decl4 \o BodyEmpty, Decl4 \o BodyMove, Declaration(3, <<" ">>) \o BodyEmpty,
             InMain(FaceBare), Lines, <<>>}

Texts ==
    {d \o b : d \in Declarations, b \in Bodies}
    \cup {InMain(x) : x \in Instructions}
    \cup {InProc(x) : x \in Instructions}
    \cup {p \o t : p \in Complete, t \in Tails}
    \cup {p \o c : p \in Complete, c \in Strays}
    \cup {c \o p : p \in Complete, c \in Strays}
    \cup {Chop(x) : x \in ClosedPrograms} \cup {Chop(Conditions)}
    \cup {Declaration(3, <<" ">>) \o OpenMain \o FaceNumber \o CloseBlock \o t :
             t \in {<<>>, TailBlock}}
    \cup {InMain(FaceNumber) \o TailBlock}
    \cup {Chop(Chop(Chop(InMain(InWhile(FaceNorth)))))}
    \cup OtherPrograms \cup OpenPrograms \cup {Everything, Small, Compact, Tiny}

TextFile(x) == [exists |-> TRUE, text |-> x]

\* the files a run of the program is given
Files == {TextFile(x) : x \in Texts} \cup {NoFile}

\* the files given to repeated calls in one process
RepeatFiles ==
    {TextFile(x) : x \in {Everything, Small, Small \o StrayLater, OpenInner,
                          Declaration(3, <<" ">>) \o BodyEmpty,
                          Decl4 \o BodyEmpty \o TailBlock, InMain(FaceBare)}}
    \cup {NoFile}

\* the files given to a call that is followed to its end
FairFiles ==
    {TextFile(x) : x \in OtherPrograms \cup OpenPrograms \cup Strays
                         \cup {Everything, Small, Compact, Tiny}}
    \cup {NoFile}

\* the files given to two calls that run at the same time
ConcurrentFiles(t) == IF t = 1 THEN {TextFile(Compact)} ELSE {TextFile(Tiny)}

(***************************************************************************)
(* Specifications.                                                         *)
(***************************************************************************)
\* the program: one process validates one file
Next == (\E f \in Files : main(1, f)) \/ Step(1)

Spec == Init /\ [][Next]_vars

\* one call of check_file on a program of any shape, run to its end: the
\* interpreter keeps executing a call that has a statement to execute
NextFair ==
    \/ \E f \in FairFiles : main(1, f)
    \/ Step(1)

SpecFair == Init /\ [][NextFair]_vars /\ WF_vars(Step(1))

\* the module used as a library: one caller validates file after file
NextRepeat ==
    \/ \E f \in RepeatFiles : main(1, f)
    \/ \E f \in RepeatFiles : check_file_again(1, f)
    \/ Step(1)

SpecRepeat == Init /\ [][NextRepeat]_vars

\* two callers validate one file each, their steps interleaved
NextConcurrent ==
    \/ \E t \in Callers : \E f \in ConcurrentFiles(t) : main(t, f)
    \/ \E t \in Callers : Step(t)

SpecConcurrent == Init /\ [][NextConcurrent]_vars

(***************************************************************************)
(* Properties.  The program of Spec has one caller, caller 1.              *)
(***************************************************************************)
\* check_file has come back to its caller
Done(t) == stack[t] = <<>> /\ result[t].status # "none"

\* the file was read and tokenize returned its token list
Lexed(t) == file[t].exists /\ result[t].reason.stage \notin {"io", "lexical"}

\* parse_program returned an AST
Parsed(t) == program[t] # PyNone

KindAt(toks, i) == IF i \in 1..Len(toks) THEN toks[i].kind ELSE "EOF"
IsWord(toks, i, w) == KindAt(toks, i) = "ID" /\ toks[i].value = w

\* the index behind the identifiers (each with an optional comma) from i on
RECURSIVE GIds(_, _)
GIds(toks, i) ==
    IF KindAt(toks, i) = "ID"
    THEN GIds(toks, IF KindAt(toks, i + 1) = "COMMA" THEN i + 2 ELSE i + 1)
    ELSE i

\* the number of identifiers listed from i on
RECURSIVE Listed(_, _)
Listed(toks, i) ==
    IF KindAt(toks, i) = "ID"
    THEN 1 + Listed(toks, IF KindAt(toks, i + 1) = "COMMA" THEN i + 2 ELSE i + 1)
    ELSE 0

\* the number of identifiers the top-level declaration lists, 0 without one
Declared(toks) == IF KindAt(toks, 1) = "PIPE" THEN Listed(toks, 2) ELSE 0

CountMessage == "Global variable declaration must have exactly 4 identifiers."
ExtraMessage == "Extra tokens found at the end of the input."

\* C1: a program whose top-level declaration does not list exactly 4
\* identifiers (none, 0, 1, 3, 5 ...) is rejected, whatever else it holds; the
\* count is of the identifiers listed, duplicates included, so | a a a a | [ ]
\* passes the count check and is accepted.
C1_CountRejects ==
    Done(1) /\ Lexed(1) =>
        /\ Declared(tokens) # 4 => result[1].value = FALSE
        /\ Declared(tokens) = 4 => result[1].reason.msg # CountMessage
        /\ file[1].text = DeclDup \o BodyEmpty => result[1].value = TRUE

\* a program with 5 globals that parsed to its end is rejected for the count
C1_Witness ==
    /\ Done(1) /\ Parsed(1) /\ pos = Len(tokens)
    /\ Declared(tokens) = 5
    /\ result[1].value = FALSE /\ result[1].reason.msg = CountMessage

(***************************************************************************)
(* The grammar of the language as a recogniser over a token list: each     *)
(* operator gives the indices a phrase that starts at i can end before.    *)
(* With greedyElse an else behind a then-block always opens the            *)
(* else-branch; without it the branch is optional, as the production       *)
(* If := "if" ":" CondSeq "then" ":" Block ["else" ":" Block] reads.       *)
(***************************************************************************)
GExpr(toks, i) ==
    IF KindAt(toks, i) \in {"NUMBER", "ID", "HASHID"} THEN {i + 1} ELSE {}

\* VarDecl := "|" {Identifier [","]} "|"
GVarDecl(toks, i) ==
    IF KindAt(toks, i) = "PIPE" /\ KindAt(toks, GIds(toks, i + 1)) = "PIPE"
    THEN {GIds(toks, i + 1) + 1}
    ELSE {}

\* {ParamPart}, up to the first token that opens none: the index behind
\* them, 0 when a part lacks its expression
RECURSIVE GParts(_, _)
GParts(toks, i) ==
    IF KindAt(toks, i) = "COLON"
    THEN IF GExpr(toks, i + 1) # {} THEN GParts(toks, i + 2) ELSE 0
    ELSE IF KindAt(toks, i) = "ID" /\ KindAt(toks, i + 1) = "COLON"
    THEN IF GExpr(toks, i + 2) # {} THEN GParts(toks, i + 3) ELSE 0
    ELSE i

\* Call := Identifier {ParamPart} ["."], the "." optional only before "]"
GCall(toks, i) ==
    IF KindAt(toks, i) # "ID" THEN {}
    ELSE LET j == GParts(toks, i + 1) IN
         IF j = 0 THEN {}
         ELSE IF KindAt(toks, j) = "DOT" THEN {j + 1}
         ELSE IF KindAt(toks, j) = "RBRACKET" THEN {j}
         ELSE {}

\* Assignment := Identifier ":=" Expr "."
GAssignment(toks, i) ==
    IF GExpr(toks, i + 2) # {} /\ KindAt(toks, i + 3) = "DOT" THEN {i + 4} ELSE {}

\* the rest of a CondSeq, consumed until the keyword: its index, 0 when absent
RECURSIVE GCondRest(_, _, _)
GCondRest(toks, i, keyword) ==
    IF IsWord(toks, i, keyword) THEN i
    ELSE IF KindAt(toks, i) = "COLON"
    THEN IF GExpr(toks, i + 1) # {} THEN GCondRest(toks, i + 2, keyword) ELSE 0
    ELSE IF GExpr(toks, i) # {} THEN GCondRest(toks, i + 1, keyword)
    ELSE 0

\* CondSeq := Expr {(":" Expr) | Expr}
GCondSeq(toks, i, keyword) ==
    IF GExpr(toks, i) = {} THEN 0 ELSE GCondRest(toks, i + 1, keyword)

\* {Param}: the index behind them, 0 when a parameter lacks its name
RECURSIVE GParams(_, _)
GParams(toks, i) ==
    IF KindAt(toks, i) = "COLON"
    THEN IF KindAt(toks, i + 1) = "ID" THEN GParams(toks, i + 2) ELSE 0
    ELSE IF KindAt(toks, i) = "ID" /\ startswith(toks[i].value, "and")
    THEN IF KindAt(toks, i + 1) = "COLON" /\ KindAt(toks, i + 2) = "ID"
         THEN GParams(toks, i + 3) ELSE 0
    ELSE i

RECURSIVE GBlock(_, _, _)
RECURSIVE GInstructions(_, _, _)
RECURSIVE GInstruction(_, _, _)
RECURSIVE GControl(_, _, _)

\* Block := "[" {Instruction} "]"
GBlock(toks, i, greedyElse) ==
    IF KindAt(toks, i) # "LBRACKET" THEN {}
    ELSE {j + 1 : j \in {k \in GInstructions(toks, i + 1, greedyElse) :
                           KindAt(toks, k) = "RBRACKET"}}

\* {Instruction}
GInstructions(toks, i, greedyElse) ==
    {i} \cup UNION {GInstructions(toks, j, greedyElse) :
                      j \in GInstruction(toks, i, greedyElse)}

\* Instruction := VarDecl | Assignment | Control | Call, told apart by the
\* first token and the one behind it
GInstruction(toks, i, greedyElse) ==
    IF KindAt(toks, i) = "PIPE" THEN GVarDecl(toks, i)
    ELSE IF IsWord(toks, i, "if") \/ IsWord(toks, i, "while")
    THEN GControl(toks, i, greedyElse)
    ELSE IF KindAt(toks, i) = "ID" /\ KindAt(toks, i + 1) = "ASSIGN"
    THEN GAssignment(toks, i)
    ELSE GCall(toks, i)

\* While := "while" ":" CondSeq "do" ":" Block
\* If := "if" ":" CondSeq "then" ":" Block ["else" ":" Block]
GControl(toks, i, greedyElse) ==
    IF KindAt(toks, i + 1) # "COLON" THEN {}
    ELSE IF IsWord(toks, i, "while")
    THEN LET j == GCondSeq(toks, i + 2, "do") IN
         IF j = 0 \/ KindAt(toks, j + 1) # "COLON" THEN {}
         ELSE GBlock(toks, j + 2, greedyElse)
    ELSE LET j == GCondSeq(toks, i + 2, "then") IN
         IF j = 0 \/ KindAt(toks, j + 1) # "COLON" THEN {}
         ELSE UNION {
                (IF IsWord(toks, k, "else") /\ KindAt(toks, k + 1) = "COLON"
                 THEN GBlock(toks, k + 2, greedyElse) ELSE {})
                \cup (IF greedyElse /\ IsWord(toks, k, "else") THEN {} ELSE {k})
                : k \in GBlock(toks, j + 2, greedyElse)}

\* ProcDef := "proc" Identifier {Param} Block
GProcDef(toks, i, greedyElse) ==
    IF IsWord(toks, i, "proc") /\ KindAt(toks, i + 1) = "ID"
    THEN LET j == GParams(toks, i + 2) IN
         IF j = 0 THEN {} ELSE GBlock(toks, j, greedyElse)
    ELSE {}

\* {ProcDef}
RECURSIVE GProcDefs(_, _, _)
GProcDefs(toks, i, greedyElse) ==
    {i} \cup UNION {GProcDefs(toks, j, greedyElse) :
                      j \in GProcDef(toks, i, greedyElse)}

\* Program := [VarDecl] {ProcDef} [Block] derives the whole token list
Derivable(toks, greedyElse) ==
    LET starts == {1} \cup GVarDecl(toks, 1)
        procs == UNION {GProcDefs(toks, a, greedyElse) : a \in starts}
        ends == procs \cup UNION {GBlock(toks, b, greedyElse) : b \in procs}
    IN (Len(toks) + 1) \in ends

Directions == {"#north", "#south", "#east", "#west"}
Turns == {"#left", "#right", "#around"}
Types == {"#chips", "#balloons"}

ConstIn(toks, i, vocabulary) ==
    KindAt(toks, i) = "HASHID" /\ toks[i].value \in vocabulary

\* the parameter part that starts at i carries a constant of the vocabulary
PartIn(toks, i, vocabulary) ==
    \/ KindAt(toks, i) = "COLON" /\ ConstIn(toks, i + 1, vocabulary)
    \/ /\ KindAt(toks, i) = "ID" /\ KindAt(toks, i + 1) = "COLON"
       /\ ConstIn(toks, i + 2, vocabulary)

\* the index behind the parameter part that starts at i
PartEnd(toks, i) == IF KindAt(toks, i) = "COLON" THEN i + 2 ELSE i + 3

\* wherever face, turn, put or pick stands, the parameter parts behind it
\* carry a constant of the command's vocabulary at the place its rule names
RulesHold(toks) ==
    \A i \in 1..Len(toks) :
        /\ IsWord(toks, i, "face") => PartIn(toks, i + 1, Directions)
        /\ IsWord(toks, i, "turn") => PartIn(toks, i + 1, Turns)
        /\ IsWord(toks, i, "put") \/ IsWord(toks, i, "pick") =>
              /\ GParts(toks, i + 1) >= PartEnd(toks, i + 1)
              /\ PartIn(toks, PartEnd(toks, i + 1), Types)

\* C2 as first stated: every token list the grammar derives, with 4 global
\* identifiers and rule-abiding face/turn/put/pick calls, is accepted.
C2_Original ==
    Done(1) /\ Lexed(1) /\ Derivable(tokens, FALSE) /\ Declared(tokens) = 4
            /\ RulesHold(tokens)
        => result[1].value = TRUE

\* C2: every token list the grammar derives when an else behind a then-block
\* always opens the else-branch, with 4 global identifiers and rule-abiding
\* face/turn/put/pick calls, is accepted; so are the three programs named.
C2_DerivableAccepted ==
    Done(1) /\ file[1].exists =>
        /\ Lexed(1) /\ Derivable(tokens, TRUE) /\ Declared(tokens) = 4
                    /\ RulesHold(tokens)
              => result[1].value = TRUE
        /\ file[1].text \in {Decl4 \o BodyEmpty, Decl4 \o BodyMove, InMain(PutChips)}
              => result[1].value = TRUE /\ Derivable(tokens, TRUE)

\* a derivable program whose put call carries a number and, behind a label,
\* a constant of Types is accepted
C2_Witness ==
    /\ Done(1) /\ result[1].value = TRUE
    /\ Derivable(tokens, TRUE) /\ RulesHold(tokens) /\ Declared(tokens) = 4
    /\ \E i \in 1..Len(tokens) :
          /\ IsWord(tokens, i, "put") /\ KindAt(tokens, i + 2) = "NUMBER"
          /\ KindAt(tokens, i + 3) = "ID" /\ ConstIn(tokens, i + 5, Types)

\* every value held anywhere inside value v, v included
RECURSIVE Nodes(_)
Nodes(v) == {v} \cup UNION {Nodes(v.items[i]) : i \in 1..Len(v.items)}

\* node n is a call of one of the names
IsCall(n, names) ==
    /\ n.ty = "tuple" /\ Len(n.items) = 3
    /\ n.items[1] = PyStr("proc_call") /\ n.items[2].s \in names

\* argument k of call n is there and is a constant
ArgIsConst(n, k) ==
    /\ Len(n.items[3].items) >= k
    /\ n.items[3].items[k].items[1] = PyStr("const")

\* a face or turn call without a constant first, a put or pick call without
\* a constant second
LackingCall(n) ==
    \/ IsCall(n, {"face", "turn"}) /\ ~ArgIsConst(n, 1)
    \/ IsCall(n, {"put", "pick"}) /\ ~ArgIsConst(n, 2)

IsNode(n, tag) == n.ty = "tuple" /\ n.items[1] = PyStr(tag)

\* C3: a program that lexes and parses, has 4 globals and no trailing tokens
\* is rejected, at the semantic stage, whenever a face or turn call without a
\* constant first argument or a put or pick call without a constant second
\* argument stands anywhere in it; no other program fails at that stage.
C3_LackingRejected ==
    Done(1) /\ Parsed(1) /\ Declared(tokens) = 4 /\ pos = Len(tokens) =>
        ((\E n \in Nodes(program[1]) : LackingCall(n))
            <=> (result[1].value = FALSE /\ result[1].reason.stage = "semantic"))

\* a put call with one argument in the else-block of an if that is itself
\* inside a control structure brings the rejection about
C3_Witness ==
    /\ Done(1) /\ Parsed(1) /\ Declared(tokens) = 4 /\ pos = Len(tokens)
    /\ result[1].value = FALSE /\ result[1].reason.stage = "semantic"
    /\ \E outer \in Nodes(program[1]) :
          /\ IsNode(outer, "if") \/ IsNode(outer, "while")
          /\ \E n \in Nodes(outer.items[3]) :
                /\ IsNode(n, "if") /\ n.items[4] # PyNone
                /\ \E m \in Nodes(n.items[4]) :
                      IsCall(m, {"put"}) /\ ~ArgIsConst(m, 2)
    /\ \A n \in Nodes(program[1]) :
          LackingCall(n) => \E m \in Nodes(program[1]) :
              IsNode(m, "if") /\ n \in Nodes(m.items[4])

\* a face, turn, put or pick call whose constant is outside the vocabulary
\* of the command
ForeignConstantCall(n) ==
    \/ IsCall(n, {"face"}) /\ ArgIsConst(n, 1)
          /\ n.items[3].items[1].items[2].s \notin Directions
    \/ IsCall(n, {"turn"}) /\ ArgIsConst(n, 1)
          /\ n.items[3].items[1].items[2].s \notin Turns
    \/ IsCall(n, {"put", "pick"}) /\ ArgIsConst(n, 2)
          /\ n.items[3].items[2].items[2].s \notin Types

\* C4: a program in which a face, turn, put or pick call carries a constant
\* outside the vocabulary of the command is rejected.
C4_ForeignRejected ==
    Done(1) /\ Parsed(1) /\ (\E n \in Nodes(program[1]) : ForeignConstantCall(n))
        => result[1].value = FALSE

\* what the code does with such a program: with 4 globals, every token
\* consumed and no call lacking its constant, it is accepted
C4_ForeignAccepted ==
    /\ Done(1) /\ Parsed(1) /\ Declared(tokens) = 4 /\ pos = Len(tokens)
    /\ file[1].text = InMain(FacePurple)
    /\ \E n \in Nodes(program[1]) : ForeignConstantCall(n)
    /\ result[1].value = TRUE

\* C5: a call whose parse_program returns with the cursor short of the end
\* of the token list returns False, with the extra-tokens message when the
\* count of globals is 4; a call that returns True has consumed every token.
C5_LeftoverRejected ==
    Done(1) =>
        /\ result[1].value = TRUE => Parsed(1) /\ pos = Len(tokens)
        /\ Parsed(1) /\ pos # Len(tokens) =>
              /\ result[1].value = FALSE
              /\ result[1].reason.stage = "structural"
              /\ Declared(tokens) = 4 => result[1].reason.msg = ExtraMessage

\* a proc behind the main block of a program with 4 globals is left over
C5_Witness ==
    /\ Done(1) /\ Parsed(1) /\ pos < Len(tokens) /\ Declared(tokens) = 4
    /\ KindAt(tokens, pos) = "RBRACKET" /\ IsWord(tokens, pos + 1, "proc")
    /\ result[1].value = FALSE /\ result[1].reason.msg = ExtraMessage

Stages == {"io", "lexical", "syntax", "structural", "semantic"}

\* C6: every call of check_file ends by returning True or False and no error
\* escapes it: False with the failure of the stage that raised, True only
\* when the text was lexed, parsed and counted, every token was consumed and
\* the semantic walk raised nothing.
C6_ReturnsBoolean ==
    /\ \A t \in Callers : result[t].status # "escaped"
    /\ Done(1) =>
          /\ result[1].status = "returned"
          /\ result[1].value = FALSE <=> result[1].reason # NoErr
          /\ result[1].value = FALSE => result[1].reason.stage \in Stages
          /\ result[1].value = TRUE =>
                /\ Lexed(1) /\ Parsed(1) /\ Declared(tokens) = 4
                /\ pos = Len(tokens)
                /\ \A n \in Nodes(program[1]) : ~LackingCall(n)

\* the RuntimeError of the lexer, which is not the class the handler names,
\* is caught and reduced to False
C6_Witness ==
    /\ Done(1) /\ result[1].status = "returned" /\ result[1].value = FALSE
    /\ result[1].reason.cls = "RuntimeError"
    /\ result[1].reason.stage = "lexical"

\* the characters some pattern of the lexer can start with or continue on
Known == IdChar \cup Blank \cup {"|", "[", "]", ":", ".", ",", "\n"}

\* the character at i matches no pattern: it is in no class, or it is a #
\* without the first character of an identifier behind it, or a = without
\* a : before it
Stray(text, i) ==
    \/ text[i] \notin Known \cup {"#", "="}
    \/ text[i] = "#" /\ ~InAt(text, i + 1, IdStart)
    \/ text[i] = "=" /\ ~(i > 1 /\ text[i - 1] = ":")

\* the index of the first such character, 0 when there is none
FirstStray(text) ==
    IF \E i \in 1..Len(text) : Stray(text, i)
    THEN CHOOSE i \in 1..Len(text) :
            Stray(text, i) /\ \A j \in 1..(i - 1) : ~Stray(text, j)
    ELSE 0

\* 1 + the number of newlines before index i
LineOf(text, i) == 1 + Cardinality({j \in 1..(i - 1) : text[j] = "\n"})

\* C7: when the text holds a character no pattern matches, the call never
\* leaves check_file and tokenize, the parser gets no token list and no
\* program is built, and the call returns False on a RuntimeError that names
\* the first such character and its line, 1 + the newlines before it; no
\* other text fails in the lexer.
C7_StrayCharacter ==
    /\ file[1].exists /\ FirstStray(file[1].text) # 0 =>
          /\ \A k \in 1..Len(stack[1]) : stack[1][k].fn \in {"check_file", "tokenize"}
          /\ tokens = <<>> /\ program[1] = PyNone
          /\ Done(1) =>
                /\ result[1].value = FALSE
                /\ result[1].reason.cls = "RuntimeError"
                /\ result[1].reason.stage = "lexical"
                /\ result[1].reason.ch = file[1].text[FirstStray(file[1].text)]
                /\ result[1].reason.line =
                      LineOf(file[1].text, FirstStray(file[1].text))
    /\ Done(1) /\ result[1].reason.stage = "lexical" =>
          file[1].exists /\ FirstStray(file[1].text) # 0

\* a ? on line 3, behind a complete program that is accepted on its own
C7_Witness ==
    /\ Done(1) /\ file[1].text = Decl4 \o BodyEmpty \o StrayLater
    /\ TextFile(Decl4 \o BodyEmpty) \in Files
    /\ result[1].value = FALSE /\ result[1].reason.stage = "lexical"
    /\ result[1].reason.line = 3 /\ tokens = <<>>

\* C8: a call of check_file on the file the first call of the process was
\* given returns what that first call returned, verdict and failure alike,
\* whatever calls were made in between and whatever they left in tokens,
\* pos, variables and procedures.
C8_SameVerdictAgain ==
    Done(1) /\ first.set /\ file[1] = first.file => result[1] = first.result

\* a later call on the first file, failing in the lexer while tokens still
\* holds the token list of a call made in between
C8_Witness ==
    /\ Done(1) /\ first.set /\ file[1] = first.file
    /\ result[1] = first.result /\ result[1].reason.stage = "lexical"
    /\ tokens # <<>> /\ pos > 0 /\ procedures # PyDict(<<>>, <<>>)

\* the token list a text lexes to when nothing interferes
RECURSIVE Lex(_, _, _, _)
Lex(text, i, line_num, line_start) ==
    IF i > Len(text) THEN <<>>
    ELSE LET mo == token_regex(text, i)
             cs == SubSeq(text, i, mo.end - 1)
         IN IF mo.kind = "NEWLINE" THEN Lex(text, mo.end, line_num + 1, mo.end - 1)
            ELSE IF mo.kind = "SKIP" THEN Lex(text, mo.end, line_num, line_start)
            ELSE <<Token(mo.kind, group(cs),
                         IF mo.kind = "NUMBER" THEN int(cs) ELSE 0,
                         line_num, (i - 1) - line_start)>>
                 \o Lex(text, mo.end, line_num, line_start)

\* caller t is inside the parser
Parsing(t) ==
    /\ stack[t] # <<>>
    /\ \/ Len(stack[t]) > 1 /\ Top(t).fn # "tokenize"
       \/ Top(t).fn = "check_file" /\ Top(t).pc \in {"count", "consumed"}

\* C9: of two validations that run at the same time each returns the
\* verdict it returns when run alone (True for the two programs here), and
\* while one of them parses, the token list it reads is that of its own text.
C9_OwnState ==
    \A t \in Callers :
        /\ Done(t) => result[t].value = TRUE
        /\ Parsing(t) => tokens = Lex(file[t].text, 1, 1, 0)

\* what the code does: the caller given | a b c d | [ ] returns False on a
\* syntax error of the token list of the other caller
C9_Interference ==
    /\ Done(2) /\ file[2].text = Tiny
    /\ result[2].value = FALSE /\ result[2].reason.stage = "syntax"
    /\ tokens = Lex(file[1].text, 1, 1, 0)

\* how many more [ than ] the token list holds
Count(toks, kind) == Cardinality({i \in 1..Len(toks) : toks[i].kind = kind})
Open(toks) == Count(toks, "LBRACKET") - Count(toks, "RBRACKET")

\* C10 as first stated: a program with a block whose ] is missing is
\* rejected on a syntax error raised at end of input.
C10_Original ==
    Done(1) /\ Lexed(1) /\ Open(tokens) > 0 =>
        /\ result[1].value = FALSE
        /\ result[1].reason.stage = "syntax" /\ result[1].reason.eoi

\* C10: a program with a block whose ] is missing is rejected; when it is an
\* accepted program without its last ], the failure is a syntax error raised
\* at end of input, with every token consumed; and a syntax error is one at
\* end of input exactly when the token list is exhausted.
C10_UnclosedRejected ==
    Done(1) /\ Lexed(1) =>
        /\ Open(tokens) > 0 => result[1].value = FALSE
        /\ file[1].text \in ClosedPrograms =>
              Open(tokens) = 0 /\ result[1].value = TRUE
        /\ file[1].text \in {Chop(x) : x \in ClosedPrograms} =>
              /\ Open(tokens) = 1
              /\ result[1].reason.stage = "syntax" /\ result[1].reason.eoi
        /\ result[1].reason.stage = "syntax" =>
              (result[1].reason.eoi <=> pos = Len(tokens))

\* two blocks left open, one inside the other: the error is at end of input
C10_Witness ==
    /\ Done(1) /\ Lexed(1) /\ Open(tokens) = 2
    /\ result[1].value = FALSE
    /\ result[1].reason.stage = "syntax" /\ result[1].reason.eoi
    /\ pos = Len(tokens)

\* caller 1 is in parse_procedure_call, behind the name and the parameters
\* read so far, and the current token opens no further parameter
ParamsEnded ==
    /\ stack[1] # <<>> /\ Top(1).fn = "parse_procedure_call" /\ Top(1).pc = "args"
    /\ \/ current_token = None
       \/ /\ current_token.kind # "COLON"
          /\ ~(/\ current_token.kind = "ID"
               /\ pos + 2 <= Len(tokens) /\ tokens[pos + 2].kind = "COLON")

\* the step hands the call node back to parse_instruction, the cursor moved by n
CallReturned(n) ==
    /\ stack'[1] = Pop(stack[1])
    /\ ret'[1] = ProcCall(Top(1).name, Top(1).l1)
    /\ pos' = pos + n

\* the step ends the validation on a syntax error that cites the current token
CallRefused ==
    /\ stack'[1] = <<>> /\ pos' = pos
    /\ result'[1].value = FALSE /\ result'[1].reason.stage = "syntax"
    /\ ~result'[1].reason.eoi /\ result'[1].reason.ch = current_token.value
    /\ result'[1].reason.col = current_token.col

\* C11: behind the name and the parameters of a call, a "." is consumed and
\* the call returned; before "]" (and at end of input) the call is returned
\* with the cursor left where it is; any other token is a syntax error that
\* cites it, so that [ move move ] is rejected.
C11_CallTerminator ==
    /\ [][ParamsEnded =>
            IF current_token # None /\ current_token.kind = "DOT"
            THEN CallReturned(1)
            ELSE IF current_token = None \/ current_token.kind = "RBRACKET"
            THEN CallReturned(0)
            ELSE CallRefused]_vars
    /\ [](Done(1) /\ file[1].text = TwoCalls =>
            /\ result[1].value = FALSE /\ result[1].reason.ch = "move"
            /\ result[1].reason.col = 19)

\* a call with parameters returned before "]" without a ".": the cursor
\* still stands on the bracket
C11_Witness ==
    /\ stack[1] # <<>> /\ Top(1).fn = "parse_instruction" /\ Top(1).pc = "return"
    /\ IsCall(ret[1], {"pick"}) /\ Len(ret[1].items[3].items) = 2
    /\ pos > 0
    /\ current_token # None /\ current_token.kind = "RBRACKET"
    /\ tokens[pos].kind # "DOT"

\* caller 1 is in parse_assignment, behind the expression
ExpressionRead ==
    stack[1] # <<>> /\ Top(1).fn = "parse_assignment" /\ Top(1).pc = "dot"

\* the step ends the validation on a syntax error, at end of input or citing
\* the current token
AssignmentRefused ==
    /\ stack'[1] = <<>> /\ pos' = pos
    /\ result'[1].value = FALSE /\ result'[1].reason.stage = "syntax"
    /\ IF current_token = None THEN result'[1].reason.eoi
       ELSE /\ result'[1].reason.ch = current_token.value
            /\ result'[1].reason.col = current_token.col
            /\ result'[1].reason.msg =
                  "Expected token type DOT but got " \o current_token.kind

\* C12 as first stated: the block [ x := 5 ], whose last instruction is an
\* assignment without ".", parses.
C12_Original ==
    Done(1) /\ file[1].text = AssignmentBare => Parsed(1)

\* C12: an assignment must end in "." wherever it stands, the last place
\* before "]" included: behind its expression a "." is consumed and any other
\* token, "]" among them, is a syntax error, so that [ x := 5 ] is rejected
\* and every ":=" of an accepted program has a "." two tokens on; a call may
\* go without "." before "]".
C12_AssignmentNeedsDot ==
    /\ [][ExpressionRead =>
            IF current_token # None /\ current_token.kind = "DOT"
            THEN /\ stack'[1] = Pop(stack[1]) /\ pos' = pos + 1
                 /\ ret'[1] = Assign(Top(1).name, Top(1).l1[1])
            ELSE AssignmentRefused]_vars
    /\ [](Done(1) /\ result[1].value = TRUE =>
            \A i \in 1..Len(tokens) :
                tokens[i].kind = "ASSIGN" => KindAt(tokens, i + 2) = "DOT")
    /\ [](Done(1) /\ file[1].text = AssignmentBare =>
            result[1].value = FALSE /\ ~Parsed(1) /\ result[1].reason.ch = "]")
    /\ [](Done(1) /\ file[1].text = InMain(PickBalloons) => result[1].value = TRUE)

\* the assignment x := 5 before "]": the validation ended on the syntax
\* error that cites the bracket
C12_Witness ==
    /\ Done(1) /\ file[1].text = AssignmentBare
    /\ tokens[pos].kind = "NUMBER" /\ KindAt(tokens, pos + 1) = "RBRACKET"
    /\ result[1].value = FALSE
    /\ result[1].reason.msg = "Expected token type DOT but got RBRACKET"

\* caller 1 is inside the parser
InParser ==
    stack[1] # <<>> /\ Top(1).fn \notin {"check_file", "tokenize", "check_semantics"}

\* the token k places behind the cursor, None when the list ends before it
Window(k) == IF pos + k < Len(tokens) THEN tokens[pos + k + 1] ELSE None

\* the function on top of the stack of caller 1 after the step
NewTop == stack'[1][Len(stack'[1])]

\* parse_instruction chooses its callee from the current token and the next
InstructionChoice ==
    stack[1] # <<>> /\ Top(1).fn = "parse_instruction" /\ Top(1).pc = "start" =>
        IF Window(0) = None THEN stack'[1] = <<>> /\ result'[1].reason.eoi
        ELSE /\ Len(stack'[1]) = Len(stack[1]) + 1 /\ pos' = pos
             /\ NewTop.fn =
                  IF Window(0).kind = "PIPE" THEN "parse_variable_declaration"
                  ELSE IF Window(0).kind = "ID" /\ Window(0).value \in {"if", "while"}
                  THEN "parse_control_structure"
                  ELSE IF /\ Window(0).kind = "ID"
                          /\ Window(1) # None /\ Window(1).kind = "ASSIGN"
                  THEN "parse_assignment"
                  ELSE "parse_procedure_call"

\* parse_procedure_call chooses between a bare parameter, a labeled one and
\* the end of the parameters from the current token and the next
ParameterChoice ==
    stack[1] # <<>> /\ Top(1).fn = "parse_procedure_call" /\ Top(1).pc = "args" =>
        IF Window(0) # None /\ Window(0).kind = "COLON"
        THEN Len(stack'[1]) = Len(stack[1]) /\ NewTop.pc = "arg" /\ pos' = pos + 1
        ELSE IF /\ Window(0) # None /\ Window(0).kind = "ID"
                /\ Window(1) # None /\ Window(1).kind = "COLON"
        THEN Len(stack'[1]) = Len(stack[1]) /\ NewTop.pc = "label" /\ pos' = pos + 1
        ELSE Len(stack'[1]) < Len(stack[1])

\* C13: the cursor never decreases: a step leaves it or adds exactly 1, and
\* adds 1 only inside the parser, with the token list unchanged and a current
\* token there, so that 0 <= pos <= Len(tokens) in every state; the choices
\* of parse_instruction and of the parameter loop of parse_procedure_call
\* follow from the current token and the one behind it.
C13_SingleCursor ==
    /\ [](pos \in 0..Len(tokens))
    /\ [][\/ pos' = pos
          \/ /\ pos' = pos + 1 /\ pos < Len(tokens)
             /\ InParser /\ tokens' = tokens]_vars
    /\ [][InParser => tokens' = tokens]_vars
    /\ [][InstructionChoice /\ ParameterChoice]_vars

\* an accepted program with an assignment and a labeled parameter: both
\* lookaheads were taken and the cursor stands at the end of the token list
C13_Witness ==
    /\ Done(1) /\ result[1].value = TRUE /\ pos = Len(tokens) /\ pos > 0
    /\ \E i \in 1..Len(tokens) :
          \/ tokens[i].kind = "ASSIGN"
          \/ /\ i > 2 /\ tokens[i].kind = "ID" /\ KindAt(tokens, i + 1) = "COLON"
             /\ tokens[i - 1].kind = "NUMBER"

\* the place of a statement of check_file in its order
Rank(pc) ==
    CASE pc = "open" -> 0 [] pc = "tokens" -> 1 [] pc = "pos" -> 2
      [] pc = "variables" -> 3 [] pc = "procedures" -> 4 [] pc = "parse" -> 5
      [] pc = "count" -> 6 [] pc = "consumed" -> 7 [] pc = "accept" -> 8

\* the functions of caller 1 that are on the stack
OnStack == {stack[1][k].fn : k \in 1..Len(stack[1])}

\* the variables list of the program parse_program returned
GlobalsOf(p) == DictGet(p, "variables").items

\* C14: check_file goes through lex, parse, count check, consumption check
\* and semantic check in this order, one after the other, and ends at the
\* first that fails: the parser runs on the whole token list of the text, the
\* semantic walk only on a parsed program with 4 globals and no token left,
\* a lexical failure leaves no token list and a syntax failure no program,
\* and a parsed program with a count other than 4 fails with the count
\* message whatever else is wrong with it, one with 4 globals and tokens left
\* with the extra-tokens message.
C14_StageOrder ==
    /\ [][stack[1] # <<>> /\ stack'[1] # <<>> =>
            Rank(stack'[1][1].pc) \in {Rank(stack[1][1].pc), Rank(stack[1][1].pc) + 1}]_vars
    /\ [](stack[1] # <<>> =>
            /\ stack[1][1].fn = "check_file"
            /\ "tokenize" \in OnStack => stack[1][1].pc = "tokens"
            /\ InParser => /\ stack[1][1].pc = "count"
                           /\ tokens = Lex(file[1].text, 1, 1, 0)
                           /\ program[1] = PyNone
            /\ "check_semantics" \in OnStack =>
                  /\ stack[1][1].pc = "accept" /\ Parsed(1)
                  /\ Len(GlobalsOf(program[1])) = 4 /\ Declared(tokens) = 4
                  /\ pos = Len(tokens))
    /\ [](Done(1) =>
            /\ result[1].reason.stage \in {"io", "lexical"} =>
                  tokens = <<>> /\ ~Parsed(1)
            /\ result[1].reason.stage = "syntax" => ~Parsed(1)
            /\ Parsed(1) /\ Declared(tokens) # 4 =>
                  result[1].value = FALSE /\ result[1].reason.msg = CountMessage
            /\ Parsed(1) /\ Declared(tokens) = 4 /\ pos # Len(tokens) =>
                  result[1].value = FALSE /\ result[1].reason.msg = ExtraMessage
            /\ result[1].reason.stage = "semantic" =>
                  Parsed(1) /\ Declared(tokens) = 4 /\ pos = Len(tokens))

\* 3 globals, a face call without a constant and a second block behind the
\* main block: the failure is the count message
C14_Witness ==
    /\ Done(1) /\ Parsed(1) /\ Declared(tokens) = 3 /\ pos < Len(tokens)
    /\ \E n \in Nodes(program[1]) : LackingCall(n)
    /\ result[1].value = FALSE /\ result[1].reason.msg = CountMessage

\* caller 1 stays in the same function at the same place over the step: one
\* turn of a loop that calls no parse function
SamePlace ==
    /\ InParser /\ Len(stack'[1]) = Len(stack[1])
    /\ NewTop.fn = Top(1).fn /\ NewTop.pc = Top(1).pc

\* C15: every call of check_file comes to its end, whatever the token list:
\* a started validation leads to a returned verdict, also when the do or then
\* of a condition or the "]" of a block never comes; a turn of a parsing loop
\* moves the cursor by one token.
C15_ParserTerminates ==
    /\ (stack[1] # <<>>) ~> Done(1)
    /\ [][SamePlace => pos' = pos + 1]_vars

\* a condition that runs to the end of the token list without its then: the
\* validation has ended, on the syntax error at end of input
C15_Witness ==
    /\ Done(1) /\ file[1].text = OpenCond
    /\ pos = Len(tokens) /\ IsWord(tokens, pos - 2, "if")
    /\ result[1].value = FALSE /\ result[1].reason.eoi

====
